---------------------------- MODULE Spec2Model ----------------------------
(***************************************************************************)
(* The error-handling pipeline of src/src/errorHandling.ts: the process-   *)
(* wide error log, the remote reporter, the toast and dialog presenters,   *)
(* the label classifier and the two handler wrappers.                      *)
(*                                                                         *)
(* Execution is single-threaded: every action below is one run-to-         *)
(* completion stretch of JavaScript, from a call (or the resumption of an  *)
(* await) to the next await or to the return.                              *)
(*                                                                         *)
(* An optional JavaScript value is a sequence of length at most one:       *)
(* << >> is undefined, <<v>> is the value v.                               *)
(***************************************************************************)
EXTENDS Naturals, Sequences, FiniteSets, TLC

VARIABLES
    calls,      \* the invocations of the exported entry points, in call order
    errorLog,   \* fyo.errorLog
    sent,       \* ipcRenderer.invoke(IPC_ACTIONS.SEND_ERROR, ...) requests made
    toasts,     \* showToast(...) presentations, in order
    dialogs,    \* showMessageDialog(...) presentations, in order
    opened,     \* ipcRenderer.send(IPC_MESSAGES.OPEN_EXTERNAL, ...) messages
    console,    \* console.error / console.log output
    labelled    \* results of getErrorLabel applied on its own (SpecLabel)

vars == <<calls, errorLog, sent, toasts, dialogs, opened, console, labelled>>

---------------------------------------------------------------------------
(* Bounds *)

\* calls of the entry points in one behaviour of Spec
MaxCalls == 1
\* concurrently started handleError calls in one behaviour of SpecConc
MaxConc == 2
\* applications of the classifier in one behaviour of SpecLabel
MaxLabelled == 2

---------------------------------------------------------------------------
(* Optional values and JavaScript operators *)

None == << >>
Some(v) == <<v>>

\* a ?? d
Nullish(opt, d) == IF opt = None THEN d ELSE opt[1]

\* !s for an optional string s
Falsy(opt) == opt = None \/ opt[1] = ""

\* t`...`: the translation of a literal, here in the source language
t(literal) == literal

---------------------------------------------------------------------------
(* Inputs *)

RecognizedNames ==
    { "BaseError", "ValidationError", "NotFoundError", "ForbiddenError",
      "DuplicateEntryError", "LinkValidationError", "MandatoryError",
      "DatabaseError", "CannotCommitError", "NotImplemented" }

UnrecognizedNames == { "TypeError", "RangeError" }

\* every error.name the classifier is applied to: absent, empty, recognized, other
ErrorNames ==
    {None, Some("")} \cup {Some(n) : n \in RecognizedNames \cup UnrecognizedNames}

\* the names of the errors raised in Spec
RaisedNames == {None, Some(""), Some("ValidationError"), Some("TypeError")}

Stacks == {None, Some(""), Some("trace...")}

ShouldStores == {None, Some(TRUE), Some(FALSE)}

ErrorsNamed(names) ==
    [name : names, stack : Stacks, message : {"Bad input"}, cause : {None},
     shouldStore : ShouldStores]

ErrorWithCause ==
    [name |-> Some("DatabaseError"), stack |-> Some("trace..."),
     message |-> "Bad input", cause |-> Some("SqliteError"), shouldStore |-> None]

Errors == ErrorsNamed(RaisedNames) \cup {ErrorWithCause}

ConcErrors == ErrorsNamed({Some("ValidationError")})

\* fyo.store, fyo.singles.SystemSettings, fyo.config and the router, as read here
Store ==
    [platform |-> "Linux", appVersion |-> "0.0.0", language |-> "English",
     instanceId |-> "instance", openCount |-> "1", isDevelopment |-> TRUE,
     countryCode |-> None, fullPath |-> "/"]

---------------------------------------------------------------------------
(* Pure helpers *)

\* shouldNotStore: the ?? true default dropped, every error is stored
shouldNotStore_AlwaysStore(error) == FALSE

shouldNotStore(error) ==
    LET shouldLog == Nullish(error.shouldStore, TRUE)
    IN  ~shouldLog

getErrorLabel_NotFoundFallsThrough(error) ==
    LET name == error.name
    IN  IF Falsy(name) THEN t("Error")
        ELSE IF name[1] = "BaseError" THEN t("Error")
        ELSE IF name[1] = "ValidationError" THEN t("Validation Error")
        ELSE IF name[1] = "ForbiddenError" THEN t("Forbidden Error")
        ELSE IF name[1] = "DuplicateEntryError" THEN t("Duplicate Entry")
        ELSE IF name[1] = "LinkValidationError" THEN t("Link Validation Error")
        ELSE IF name[1] = "MandatoryError" THEN t("Mandatory Error")
        ELSE IF name[1] = "DatabaseError" THEN t("Database Error")
        ELSE IF name[1] = "CannotCommitError" THEN t("Cannot Commit Error")
        ELSE t("Error")

getErrorLabel(error) ==
    LET name == error.name
    IN  IF Falsy(name) THEN t("Error")
        ELSE IF name[1] = "BaseError" THEN t("Error")
        ELSE IF name[1] = "ValidationError" THEN t("Validation Error")
        ELSE IF name[1] = "NotFoundError" THEN t("Not Found")
        ELSE IF name[1] = "ForbiddenError" THEN t("Forbidden Error")
        ELSE IF name[1] = "DuplicateEntryError" THEN t("Duplicate Entry")
        ELSE IF name[1] = "LinkValidationError" THEN t("Link Validation Error")
        ELSE IF name[1] = "MandatoryError" THEN t("Mandatory Error")
        ELSE IF name[1] = "DatabaseError" THEN t("Database Error")
        ELSE IF name[1] = "CannotCommitError" THEN t("Cannot Commit Error")
        ELSE IF name[1] = "NotImplemented" THEN t("Error")
        ELSE t("Error")

\* getErrorMessage(error, doc) of ./utils: the display message of the error
getErrorMessage(error, doc) == error.message

\* stringifyCircular(obj) of ./utils: each value of the mapping as text
stringifyCircular(obj) == [k \in DOMAIN obj |-> ToString(obj[k])]

\* lodash truncate(str, {length}): at most length characters, "..." included
truncate(str, length) ==
    IF Len(str) <= length THEN str ELSE SubSeq(str, 1, length - 3) \o "..."

DetailLimit == 128

\* the entry built by getErrorLogObject; call is the invocation it was built in
getErrorLogObject(error, more, call) ==
    [name |-> error.name, stack |-> error.stack, message |-> error.message,
     more |-> IF error.cause # None
                THEN ("cause" :> error.cause[1]) @@ more
                ELSE more,
     call |-> call]

\* fyo.errorLog.unshift instead of push
PushLog_Unshift(log, errorLogObj) == <<errorLogObj>> \o log

\* fyo.errorLog.push(errorLogObj)
PushLog(log, errorLogObj) == Append(log, errorLogObj)

\* the body with the message where the stack belongs
reportBody_StackFromMessage(errorLogObj) ==
    [error_name |-> errorLogObj.name, message |-> errorLogObj.message,
     stack |-> Some(errorLogObj.message), platform |-> Store.platform,
     version |-> Store.appVersion, language |-> Store.language,
     instance_id |-> Store.instanceId, open_count |-> Store.openCount,
     country_code |-> Store.countryCode,
     more |-> stringifyCircular(errorLogObj.more)]

\* the body reportError assembles
reportBody(errorLogObj) ==
    [error_name |-> errorLogObj.name, message |-> errorLogObj.message,
     stack |-> errorLogObj.stack, platform |-> Store.platform,
     version |-> Store.appVersion, language |-> Store.language,
     instance_id |-> Store.instanceId, open_count |-> Store.openCount,
     country_code |-> Store.countryCode,
     more |-> stringifyCircular(errorLogObj.more)]

\* the guard tests only for an absent stack, not for an empty one
reportError_AbsentOnly(errorLogObj) ==
    IF errorLogObj.stack = None THEN None ELSE Some(reportBody(errorLogObj))

\* reportError up to its await: the request it makes, if any
reportError(errorLogObj) ==
    IF Falsy(errorLogObj.stack) THEN None ELSE Some(reportBody(errorLogObj))

\* the toast carries the classified label
getToastProps_Label(errorLogObj) ==
    [message |-> getErrorLabel(errorLogObj), type |-> "error",
     actionText |-> t("Report Error"), action |-> errorLogObj]

\* action is the entry the callback hands to reportIssue
getToastProps(errorLogObj) ==
    [message |-> Nullish(errorLogObj.name, t("Error")), type |-> "error",
     actionText |-> t("Report Error"), action |-> errorLogObj]

\* the sections of the issue body, in order
getIssueUrlQuery(errorLogObj) ==
    <<"Description">>
    \o (IF errorLogObj # None THEN <<"Error Info">> ELSE << >>)
    \o (IF errorLogObj # None /\ ~Falsy(errorLogObj[1].stack)
          THEN <<"Stack">> ELSE << >>)
    \o <<"Version", "Platform", "Path", "Language">>
    \o (IF ~Falsy(Store.countryCode) THEN <<"Country">> ELSE << >>)

---------------------------------------------------------------------------
(* Invocations *)

Kinds == {"handleError", "handleErrorWithDialog", "errorHandled", "errorHandledSync"}

(* One invocation of an entry point.                                       *)
(*   pc       where it is suspended: "func" (awaiting the wrapped          *)
(*            function), "report" (await reportError), "toast" (await      *)
(*            showToast), "handled" (handleError's promise has settled,    *)
(*            the caller's continuation is queued), "dialog" (await        *)
(*            showMessageDialog), "done"                                   *)
(*   he       the promise of its handleError call: "none", "pending",      *)
(*            "fulfilled", "rejected"                                      *)
(*   ipc      the promise of ipcRenderer.invoke in reportError: "none"     *)
(*            (no request made), "pending", "delivered", "failed"          *)
(*   outcome  what its caller has got: "pending", "returned",              *)
(*            "threwError" (the original error), "threwTransport"          *)
(*   detached the promise of the .then continuation of errorHandledSync    *)
NewCall(kind, error, logToConsole, reportErrorArg, dontThrow) ==
    [kind |-> kind, error |-> error, logToConsole |-> logToConsole,
     reportError |-> reportErrorArg, dontThrow |-> dontThrow,
     errorLogObj |-> None, pc |-> "done", he |-> "none", ipc |-> "none",
     outcome |-> "pending", detached |-> "none"]

ConsoleLine(level, text, call) == [level |-> level, text |-> text, call |-> call]

\* handleError from its call to its first await (or to its early return):
\* the values of the log, the channel and the console after it, the entry it
\* built, and whether it is suspended in await reportError
handleError(id, logToConsole, error, more) ==
    LET logged == IF logToConsole
                    THEN Append(console, ConsoleLine("error", error.message, id))
                    ELSE console
    IN  IF shouldNotStore(error)
        THEN [console |-> logged, errorLog |-> errorLog, sent |-> sent,
              errorLogObj |-> None, suspended |-> FALSE, invoked |-> FALSE]
        ELSE LET errorLogObj == getErrorLogObject(error, more, id)
                 request == reportError(errorLogObj)
             IN  [console |-> IF request # None /\ Store.isDevelopment
                                THEN Append(logged, ConsoleLine("log", "reportError", id))
                                ELSE logged,
                  errorLog |-> PushLog(errorLog, errorLogObj),
                  sent |-> IF request # None
                             THEN Append(sent, [action |-> "SEND_ERROR",
                                                body |-> request[1], call |-> id])
                             ELSE sent,
                  errorLogObj |-> Some(errorLogObj),
                  suspended |-> TRUE,
                  invoked |-> request # None]

\* the invocation once the promise of its handleError call has settled
Settled(c, result) ==
    IF c.kind = "handleError"
    THEN [c EXCEPT !.pc = "done", !.he = result,
                   !.outcome = IF result = "fulfilled" THEN "returned"
                                                        ELSE "threwTransport"]
    ELSE [c EXCEPT !.pc = "handled", !.he = result]

\* the invocation after the synchronous part h of its handleError call
Begun(c, h) ==
    IF h.suspended
    THEN [c EXCEPT !.pc = "report", !.he = "pending", !.ipc = IF h.invoked THEN "pending" ELSE "none",
                   !.errorLogObj = h.errorLogObj]
    ELSE Settled(c, "fulfilled")

\* a failed delivery is swallowed and handling goes on
reportOutcome_Caught(invoked, delivered) == "resume"

\* await ipcRenderer.invoke(...) and await reportError(...): nothing catches
reportOutcome(invoked, delivered) ==
    IF invoked /\ ~delivered THEN "reject" ELSE "resume"

\* the throw after the await is missing
errorHandledOutcome_NoThrow(he) ==
    IF he = "fulfilled" THEN "returned" ELSE "threwTransport"

\* errorHandled's catch block after await handleError(...)
errorHandledOutcome(he) ==
    IF he = "fulfilled" THEN "threwError" ELSE "threwTransport"

\* .finally in place of .then: the error is thrown however handling settled
errorHandledSyncOutcome_Finally(he) == "threwError"

\* the promise of handleError(...).then(() => { throw error })
errorHandledSyncOutcome(he) ==
    IF he = "fulfilled" THEN "threwError" ELSE "threwTransport"

\* dontThrow is ignored
dialogOutcome_AlwaysThrows(dontThrow) == "threwError"

\* the end of handleErrorWithDialog
dialogOutcome(dontThrow) == IF dontThrow THEN "returned" ELSE "threwError"

EmptyMore == << >>

WrapperMore == [functionName |-> "func", functionArgs |-> << >>]

---------------------------------------------------------------------------
(* Actions *)

Init ==
    /\ calls = << >>
    /\ errorLog = << >>
    /\ sent = << >>
    /\ toasts = << >>
    /\ dialogs = << >>
    /\ opened = << >>
    /\ console = << >>
    /\ labelled = << >>

\* handleError(logToConsole, error) is called, with errors from E
CallHandleError(E, max) ==
    /\ Len(calls) < max
    /\ \E error \in E, logToConsole \in BOOLEAN :
         LET id == Len(calls) + 1
             h == handleError(id, logToConsole, error, EmptyMore)
             c == NewCall("handleError", Some(error), logToConsole, FALSE, FALSE)
         IN  /\ calls' = Append(calls, Begun(c, h))
             /\ errorLog' = h.errorLog
             /\ sent' = h.sent
             /\ console' = h.console
    /\ UNCHANGED <<toasts, dialogs, opened, labelled>>

\* await reportError(errorLogObj) resumes or throws; then showToast is called
ReportSettles(i) ==
    /\ calls[i].pc = "report"
    /\ \E delivered \in BOOLEAN :
         LET invoked == calls[i].ipc = "pending"
             c == IF invoked
                    THEN [calls[i] EXCEPT !.ipc = IF delivered THEN "delivered"
                                                               ELSE "failed"]
                    ELSE calls[i]
         IN  /\ invoked \/ delivered
             /\ IF reportOutcome(invoked, delivered) = "resume"
                THEN /\ toasts' = Append(toasts, getToastProps(c.errorLogObj[1]))
                     /\ calls' = [calls EXCEPT ![i] = [c EXCEPT !.pc = "toast"]]
                ELSE /\ toasts' = toasts
                     /\ calls' = [calls EXCEPT ![i] = Settled(c, "rejected")]
    /\ UNCHANGED <<errorLog, sent, dialogs, opened, console, labelled>>

\* await showToast(toastProps) resumes and handleError returns
ToastSettles(i) ==
    /\ calls[i].pc = "toast"
    /\ calls' = [calls EXCEPT ![i] = Settled(calls[i], "fulfilled")]
    /\ UNCHANGED <<errorLog, sent, toasts, dialogs, opened, console, labelled>>

\* handleErrorWithDialog(error, doc, reportError, dontThrow) is called
CallHandleErrorWithDialog ==
    /\ Len(calls) < MaxCalls
    /\ \E error \in Errors, reportErrorArg \in BOOLEAN, dontThrow \in BOOLEAN :
         LET id == Len(calls) + 1
             doc == None
             errorMessage == getErrorMessage(error, doc)
             h == handleError(id, FALSE, error,
                              [errorMessage |-> errorMessage, doc |-> doc])
             c == NewCall("handleErrorWithDialog", Some(error), FALSE,
                          reportErrorArg, dontThrow)
         IN  /\ calls' = Append(calls, Begun(c, h))
             /\ errorLog' = h.errorLog
             /\ sent' = h.sent
             /\ console' = h.console
    /\ UNCHANGED <<toasts, dialogs, opened, labelled>>

\* the options handleErrorWithDialog hands to showMessageDialog
DialogOptions(c, id) ==
    LET error == c.error[1]
        errorMessage == getErrorMessage(error, None)
    IN  [message |-> getErrorLabel(error),
         detail |-> IF c.reportError THEN truncate(errorMessage, DetailLimit)
                                     ELSE errorMessage,
         buttons |-> IF c.reportError THEN <<t("Report"), t("Cancel")>> ELSE << >>,
         call |-> id]

\* await handleError(...) in handleErrorWithDialog resumes or throws
DialogAfterHandling(i) ==
    /\ calls[i].kind = "handleErrorWithDialog"
    /\ calls[i].pc = "handled"
    /\ IF calls[i].he = "rejected"
       THEN /\ calls' = [calls EXCEPT ![i].pc = "done", ![i].outcome = "threwTransport"]
            /\ dialogs' = dialogs
       ELSE /\ calls' = [calls EXCEPT ![i].pc = "dialog"]
            /\ dialogs' = Append(dialogs, DialogOptions(calls[i], i))
    /\ UNCHANGED <<errorLog, sent, toasts, opened, console, labelled>>

\* the user closes the dialog with one of its buttons; the call ends
DialogSettles(i) ==
    /\ calls[i].pc = "dialog"
    /\ \E button \in (IF calls[i].reportError THEN {"Report", "Cancel"} ELSE {"OK"}) :
         LET error == calls[i].error[1]
             errorLogObj == getErrorLogObject(
                                error,
                                [errorMessage |-> getErrorMessage(error, None)], i)
         IN  IF button = "Report"
             THEN /\ errorLog' = PushLog(errorLog, errorLogObj)
                  /\ opened' = Append(opened, getIssueUrlQuery(Some(errorLogObj)))
             ELSE /\ errorLog' = errorLog
                  /\ opened' = opened
    /\ calls' = [calls EXCEPT ![i].pc = "done",
                              ![i].outcome = dialogOutcome(calls[i].dontThrow)]
    /\ console' = IF calls[i].dontThrow /\ Store.isDevelopment
                    THEN Append(console,
                                ConsoleLine("error", calls[i].error[1].message, i))
                    ELSE console
    /\ UNCHANGED <<sent, toasts, dialogs, labelled>>

\* errorHandled(...args) is called and awaits func(...args)
CallErrorHandled ==
    /\ Len(calls) < MaxCalls
    /\ calls' = Append(calls, [NewCall("errorHandled", None, FALSE, FALSE, FALSE)
                                 EXCEPT !.pc = "func"])
    /\ UNCHANGED <<errorLog, sent, toasts, dialogs, opened, console, labelled>>

\* func(...args) returns, or throws an error and handleError is called
FuncSettles(i) ==
    /\ calls[i].pc = "func"
    /\ \/ /\ calls' = [calls EXCEPT ![i].pc = "done", ![i].outcome = "returned"]
          /\ UNCHANGED <<errorLog, sent, console>>
       \/ \E error \in Errors :
            LET h == handleError(i, FALSE, error, WrapperMore)
            IN  /\ calls' = [calls EXCEPT
                               ![i] = Begun([calls[i] EXCEPT !.error = Some(error)], h)]
                /\ errorLog' = h.errorLog
                /\ sent' = h.sent
                /\ console' = h.console
    /\ UNCHANGED <<toasts, dialogs, opened, labelled>>

\* await handleError(...) in errorHandled resumes or throws; then throw error
ErrorHandledRethrow(i) ==
    /\ calls[i].kind = "errorHandled"
    /\ calls[i].pc = "handled"
    /\ calls' = [calls EXCEPT ![i].pc = "done",
                              ![i].outcome = errorHandledOutcome(calls[i].he)]
    /\ UNCHANGED <<errorLog, sent, toasts, dialogs, opened, console, labelled>>

\* errorHandledSync(...args) is called: func runs, and if it throws,
\* handleError is called without await and the wrapper returns undefined
CallErrorHandledSync ==
    /\ Len(calls) < MaxCalls
    /\ \/ /\ calls' = Append(calls,
                             [NewCall("errorHandledSync", None, FALSE, FALSE, FALSE)
                                EXCEPT !.outcome = "returned"])
          /\ UNCHANGED <<errorLog, sent, console>>
       \/ \E error \in Errors :
            LET id == Len(calls) + 1
                h == handleError(id, FALSE, error, WrapperMore)
                c == NewCall("errorHandledSync", Some(error), FALSE, FALSE, FALSE)
            IN  /\ calls' = Append(calls, [Begun(c, h) EXCEPT !.outcome = "returned",
                                                             !.detached = "pending"])
                /\ errorLog' = h.errorLog
                /\ sent' = h.sent
                /\ console' = h.console
    /\ UNCHANGED <<toasts, dialogs, opened, labelled>>

\* the promise of handleError settles and the .then continuation runs or not
ErrorHandledSyncThen(i) ==
    /\ calls[i].kind = "errorHandledSync"
    /\ calls[i].pc = "handled"
    /\ calls' = [calls EXCEPT ![i].pc = "done",
                              ![i].detached = errorHandledSyncOutcome(calls[i].he)]
    /\ UNCHANGED <<errorLog, sent, toasts, dialogs, opened, console, labelled>>

\* getErrorLabel is applied to an error of the given name
Classify ==
    /\ Len(labelled) < MaxLabelled
    /\ \E name \in ErrorNames :
         labelled' = Append(labelled,
                            [name |-> name, label |-> getErrorLabel([name |-> name])])
    /\ UNCHANGED <<calls, errorLog, sent, toasts, dialogs, opened, console>>

Next ==
    \/ CallHandleError(Errors, MaxCalls)
    \/ CallHandleErrorWithDialog
    \/ CallErrorHandled
    \/ CallErrorHandledSync
    \/ \E i \in DOMAIN calls : ReportSettles(i)
    \/ \E i \in DOMAIN calls : ToastSettles(i)
    \/ \E i \in DOMAIN calls : DialogAfterHandling(i)
    \/ \E i \in DOMAIN calls : DialogSettles(i)
    \/ \E i \in DOMAIN calls : FuncSettles(i)
    \/ \E i \in DOMAIN calls : ErrorHandledRethrow(i)
    \/ \E i \in DOMAIN calls : ErrorHandledSyncThen(i)

Spec == Init /\ [][Next]_vars

\* several handleError calls in flight at once
NextConc ==
    \/ CallHandleError(ConcErrors, MaxConc)
    \/ \E i \in DOMAIN calls : ReportSettles(i)
    \/ \E i \in DOMAIN calls : ToastSettles(i)

SpecConc == Init /\ [][NextConc]_vars

\* the classifier on its own, over every name
NextLabel == Classify

SpecLabel == Init /\ [][NextLabel]_vars

---------------------------------------------------------------------------
(* What the properties below read off the state *)

\* invocation i has an error to handle
Raised(i) == calls[i].error # None

Err(i) == calls[i].error[1]

Storeable(error) == error.shouldStore \in {None, Some(TRUE)}

\* an entry recorded by the Report button of the dialog, not by handleError
ButtonEntry(entry) == DOMAIN entry.more \ {"cause"} = {"errorMessage"}

\* the positions of the log entries handleError appended in invocation i
HandledEntries(i) ==
    {k \in DOMAIN errorLog : errorLog[k].call = i /\ ~ButtonEntry(errorLog[k])}

\* the positions of the log entries the Report button appended in invocation i
ButtonEntries(i) ==
    {k \in DOMAIN errorLog : errorLog[k].call = i /\ ButtonEntry(errorLog[k])}

SentFor(i) == {k \in DOMAIN sent : sent[k].call = i}

ToastsFor(i) == {k \in DOMAIN toasts : toasts[k].action.call = i}

DialogsFor(i) == {k \in DOMAIN dialogs : dialogs[k].call = i}

ConsoleErrorsFor(i) ==
    {k \in DOMAIN console : console[k].call = i /\ console[k].level = "error"}

HandlingSettled(i) == calls[i].he \in {"fulfilled", "rejected"}

\* the position in the log of the entry a toast was built from
LogPosition(entry) == CHOOSE k \in DOMAIN errorLog : errorLog[k] = entry

\* the eight recognized names whose label is not the generic one
OwnLabelNames == RecognizedNames \ {"BaseError", "NotImplemented"}

HasOwnLabel(name) == name # None /\ name[1] \in OwnLabelNames

Recognized(name) == name # None /\ name[1] \in RecognizedNames

---------------------------------------------------------------------------
(* Properties *)

\* C1: an error whose shouldStore is false is handled without a trace:
\* handleError appends no entry to the error log for it, sends no report to
\* the collector and presents no toast, whatever logToConsole is.
C1_NotStoredLeavesNoTrace ==
    \A i \in DOMAIN calls :
        (Raised(i) /\ Err(i).shouldStore = Some(FALSE))
            => /\ HandledEntries(i) = {}
               /\ SentFor(i) = {}
               /\ ToastsFor(i) = {}
               /\ calls[i].ipc = "none"
               /\ (calls[i].kind = "handleError" =>
                     \A k \in DOMAIN errorLog : errorLog[k].call # i)

C1_Witness ==
    \E i \in DOMAIN calls :
        /\ calls[i].kind = "handleError"
        /\ calls[i].logToConsole
        /\ Err(i).shouldStore = Some(FALSE)
        /\ Err(i).stack = Some("trace...")
        /\ calls[i].pc = "done"
        /\ calls[i].outcome = "returned"
        /\ ConsoleErrorsFor(i) # {}

\* C2: for a storeable error with a non-empty stack, one handleError call
\* appends exactly one log entry and makes exactly one report request, whose
\* stack and error_name are the error's stack and name.
C2_StoredOnceReportedOnce ==
    \A i \in DOMAIN calls :
        (Raised(i) /\ Storeable(Err(i)) /\ ~Falsy(Err(i).stack))
            => /\ Cardinality(HandledEntries(i)) = 1
               /\ Cardinality(SentFor(i)) = 1
               /\ \A k \in SentFor(i) :
                    /\ sent[k].body.stack = Err(i).stack
                    /\ sent[k].body.error_name = Err(i).name
               /\ \A k \in HandledEntries(i) :
                    /\ errorLog[k].stack = Err(i).stack
                    /\ errorLog[k].name = Err(i).name

C2_Witness ==
    \E i \in DOMAIN calls :
        /\ calls[i].kind = "handleError"
        /\ Storeable(Err(i))
        /\ Err(i).stack = Some("trace...")
        /\ Err(i).name = Some("ValidationError")
        /\ calls[i].pc = "done"
        /\ calls[i].outcome = "returned"
        /\ Cardinality(SentFor(i)) = 1

\* C3: no report request is ever made for an entry whose stack is empty or
\* absent: an error with such a stack, storeable or not and whichever entry
\* point or wrapper handles it, sends nothing to the collector.
C3_NoStackNeverReported ==
    /\ \A k \in DOMAIN sent : ~Falsy(sent[k].body.stack)
    /\ \A i \in DOMAIN calls :
         (Raised(i) /\ Falsy(Err(i).stack))
             => (SentFor(i) = {} /\ calls[i].ipc = "none")

C3_Witness ==
    \E i \in DOMAIN calls :
        /\ calls[i].kind = "handleErrorWithDialog"
        /\ Err(i).stack = Some("")
        /\ Storeable(Err(i))
        /\ calls[i].pc = "done"
        /\ ToastsFor(i) # {}
        /\ ButtonEntries(i) # {}
        /\ opened # << >>
        /\ sent = << >>

\* C4 as claimed: the message of every toast is the classified label of the
\* error's name.
C4_ToastCarriesLabel ==
    \A k \in DOMAIN toasts : toasts[k].message = getErrorLabel(toasts[k].action)

\* C4: the message of every toast is the error's name as it is, and the
\* generic "Error" only when the error has no name at all; a handling that
\* ran to its end presented exactly one toast.
C4_ToastCarriesRawName ==
    /\ \A k \in DOMAIN toasts :
         LET name == toasts[k].action.name
         IN  /\ name # None => toasts[k].message = name[1]
             /\ name = None => toasts[k].message = "Error"
             /\ toasts[k].actionText = "Report Error"
    /\ \A i \in DOMAIN calls :
         (Raised(i) /\ Storeable(Err(i)) /\ calls[i].he = "fulfilled")
             => Cardinality(ToastsFor(i)) = 1

C4_Witness ==
    \E k \in DOMAIN toasts :
        /\ toasts[k].action.name = Some("ValidationError")
        /\ toasts[k].message = "ValidationError"
        /\ getErrorLabel(toasts[k].action) = "Validation Error"

\* C5 as claimed: when func throws E, errorHandled calls handleError with
\* logToConsole false and the wrapper's context, rejects only after that
\* handling has finished, and always rejects with E itself.
C5_CallerAlwaysGetsOriginal ==
    \A i \in DOMAIN calls :
        (calls[i].kind = "errorHandled" /\ Raised(i))
            => /\ (calls[i].outcome # "pending" => HandlingSettled(i))
               /\ (calls[i].pc = "done" => calls[i].outcome = "threwError")
               /\ ConsoleErrorsFor(i) = {}
               /\ \A k \in HandledEntries(i) :
                    {"functionName", "functionArgs"} \subseteq DOMAIN errorLog[k].more

\* C5: as above, but the caller gets E only when the handling completed; when
\* handleError itself rejected (the report could not be delivered), the
\* caller gets that failure in place of E.
C5_CallerGetsOriginalIfHandled ==
    \A i \in DOMAIN calls :
        (calls[i].kind = "errorHandled" /\ Raised(i))
            => /\ (calls[i].outcome # "pending" => HandlingSettled(i))
               /\ (calls[i].pc = "done" /\ calls[i].he = "fulfilled"
                     => calls[i].outcome = "threwError")
               /\ (calls[i].pc = "done" /\ calls[i].he = "rejected"
                     => calls[i].outcome = "threwTransport" /\ calls[i].ipc = "failed")
               /\ (calls[i].pc = "done" => HandlingSettled(i))
               /\ ConsoleErrorsFor(i) = {}
               /\ \A k \in HandledEntries(i) :
                    {"functionName", "functionArgs"} \subseteq DOMAIN errorLog[k].more

C5_Witness ==
    \E i \in DOMAIN calls :
        /\ calls[i].kind = "errorHandled"
        /\ Raised(i)
        /\ calls[i].pc = "done"
        /\ calls[i].he = "fulfilled"
        /\ calls[i].ipc = "delivered"
        /\ calls[i].outcome = "threwError"

\* C6 as claimed: when func throws E, errorHandledSync returns to its caller
\* without raising, and once the handling has settled, E has been re-raised
\* in the detached continuation.
C6_DetachedAlwaysRethrows ==
    \A i \in DOMAIN calls :
        (calls[i].kind = "errorHandledSync" /\ Raised(i))
            => /\ calls[i].outcome = "returned"
               /\ (calls[i].detached # "pending" => HandlingSettled(i))
               /\ (calls[i].pc = "done" => calls[i].detached = "threwError")

\* C6: errorHandledSync returns to its caller without raising; E is re-raised
\* in the detached continuation when the handling completed, and is not
\* re-raised at all when handleError rejected: the detached promise then
\* rejects with the delivery failure.
C6_DetachedRethrowsIfHandled ==
    \A i \in DOMAIN calls :
        (calls[i].kind = "errorHandledSync" /\ Raised(i))
            => /\ calls[i].outcome = "returned"
               /\ (calls[i].detached # "pending" => HandlingSettled(i))
               /\ (calls[i].pc = "done" /\ calls[i].he = "fulfilled"
                     => calls[i].detached = "threwError")
               /\ (calls[i].pc = "done" /\ calls[i].he = "rejected"
                     => calls[i].detached = "threwTransport" /\ calls[i].ipc = "failed")
               /\ (calls[i].pc = "done" => HandlingSettled(i))

C6_Witness ==
    \E i \in DOMAIN calls :
        /\ calls[i].kind = "errorHandledSync"
        /\ Raised(i)
        /\ Storeable(Err(i))
        /\ calls[i].pc = "done"
        /\ calls[i].outcome = "returned"
        /\ calls[i].detached = "threwError"

\* C7 as claimed: handleErrorWithDialog presents its dialog after handleError
\* has completed, and once it has ended it has presented exactly one dialog,
\* has returned normally if dontThrow is set and re-raised the error
\* otherwise, and has appended exactly one log entry for a storeable error.
C7_DialogAlwaysShown ==
    \A i \in DOMAIN calls :
        calls[i].kind = "handleErrorWithDialog"
            => /\ (DialogsFor(i) # {} => calls[i].he = "fulfilled")
               /\ (calls[i].pc = "done" =>
                     /\ Cardinality(DialogsFor(i)) = 1
                     /\ (calls[i].dontThrow => calls[i].outcome = "returned")
                     /\ (~calls[i].dontThrow => calls[i].outcome = "threwError")
                     /\ (Storeable(Err(i)) => Cardinality(HandledEntries(i)) = 1))

\* C7: that holds when handleError completed. When handleError rejected (the
\* report could not be delivered) no dialog is presented and the call rejects
\* with that failure, dontThrow or not. In both cases handleError has
\* appended exactly one log entry for a storeable error and none otherwise;
\* the Report button of the dialog appends one more.
C7_DialogShownIfHandled ==
    \A i \in DOMAIN calls :
        calls[i].kind = "handleErrorWithDialog"
            => /\ (DialogsFor(i) # {} => calls[i].he = "fulfilled")
               /\ Cardinality(HandledEntries(i)) = (IF Storeable(Err(i)) THEN 1 ELSE 0)
               /\ Cardinality(ButtonEntries(i)) <= (IF calls[i].reportError THEN 1 ELSE 0)
               /\ (calls[i].pc = "done" /\ calls[i].he = "fulfilled" =>
                     /\ Cardinality(DialogsFor(i)) = 1
                     /\ (calls[i].dontThrow => calls[i].outcome = "returned")
                     /\ (~calls[i].dontThrow => calls[i].outcome = "threwError"))
               /\ (calls[i].pc = "done" /\ calls[i].he = "rejected" =>
                     /\ DialogsFor(i) = {}
                     /\ calls[i].outcome = "threwTransport")
               /\ (calls[i].pc = "done" => HandlingSettled(i))

C7_Witness ==
    \E i \in DOMAIN calls :
        /\ calls[i].kind = "handleErrorWithDialog"
        /\ Err(i).name = Some("ValidationError")
        /\ Err(i).stack = Some("trace...")
        /\ Storeable(Err(i))
        /\ ~calls[i].reportError
        /\ calls[i].dontThrow
        /\ calls[i].pc = "done"
        /\ calls[i].outcome = "returned"
        /\ Cardinality(DialogsFor(i)) = 1
        /\ \A k \in DialogsFor(i) : dialogs[k].message = "Validation Error"
        /\ Len(errorLog) = 1

\* C8 as claimed: every name gets a non-empty label, the same name always the
\* same label, the ten recognized names pairwise distinct labels, and every
\* other name the generic "Error".
C8_TenDistinctLabels ==
    \A a \in DOMAIN labelled : \A b \in DOMAIN labelled :
        /\ labelled[a].label # ""
        /\ (labelled[a].name = labelled[b].name => labelled[a].label = labelled[b].label)
        /\ (Recognized(labelled[a].name) /\ Recognized(labelled[b].name)
              /\ labelled[a].name # labelled[b].name
                => labelled[a].label # labelled[b].label)
        /\ (~Recognized(labelled[a].name) => labelled[a].label = "Error")

\* C8: every name gets a non-empty label, the same name always the same
\* label; eight of the recognized names get pairwise distinct labels that are
\* not the generic one; BaseError and NotImplemented get the generic "Error",
\* as every unrecognized, empty or absent name does.
C8_EightDistinctLabels ==
    \A a \in DOMAIN labelled : \A b \in DOMAIN labelled :
        /\ labelled[a].label # ""
        /\ (labelled[a].name = labelled[b].name => labelled[a].label = labelled[b].label)
        /\ (HasOwnLabel(labelled[a].name) /\ HasOwnLabel(labelled[b].name)
              /\ labelled[a].name # labelled[b].name
                => labelled[a].label # labelled[b].label)
        /\ (HasOwnLabel(labelled[a].name) => labelled[a].label # "Error")
        /\ (~HasOwnLabel(labelled[a].name) => labelled[a].label = "Error")

C8_Witness ==
    \E a \in DOMAIN labelled : \E b \in DOMAIN labelled :
        /\ labelled[a].name = Some("BaseError")
        /\ labelled[b].name = Some("NotImplemented")
        /\ labelled[a].label = "Error"
        /\ labelled[b].label = "Error"

\* C9: when the delivery of a report fails, handleError rejects with that
\* failure and stops: no toast is presented for the error, and the log entry
\* appended before the attempt stays in the log.
C9_DeliveryFailurePropagates ==
    \A i \in DOMAIN calls :
        calls[i].ipc = "failed"
            => /\ calls[i].he = "rejected"
               /\ ToastsFor(i) = {}
               /\ Cardinality(HandledEntries(i)) = 1
               /\ Cardinality(SentFor(i)) = 1
               /\ (calls[i].kind = "handleError" =>
                     calls[i].pc = "done" /\ calls[i].outcome = "threwTransport")

C9_Witness ==
    \E i \in DOMAIN calls :
        /\ calls[i].kind = "handleError"
        /\ calls[i].ipc = "failed"
        /\ calls[i].pc = "done"
        /\ calls[i].outcome = "threwTransport"
        /\ Len(errorLog) = 1
        /\ toasts = << >>

\* C10 as claimed: the order of the entries in the log follows the order in
\* which the continuations of the calls ran (the order of their toasts), so
\* that the entry of a later call can come before that of an earlier one.
C10_LogInContinuationOrder ==
    \A p \in DOMAIN toasts : \A q \in DOMAIN toasts :
        p < q => LogPosition(toasts[p].action) < LogPosition(toasts[q].action)

\* C10: the entries of concurrent handleError calls are in the log in the
\* order in which the calls were made, however their continuations
\* interleave: each call appends its entry before its first suspension.
C10_LogInCallOrder ==
    /\ \A p \in DOMAIN errorLog : \A q \in DOMAIN errorLog :
         p < q => errorLog[p].call < errorLog[q].call
    /\ \A i \in DOMAIN calls :
         Storeable(Err(i)) => Cardinality(HandledEntries(i)) = 1

C10_Witness ==
    \E p \in DOMAIN toasts : \E q \in DOMAIN toasts :
        /\ p < q
        /\ toasts[p].action.call > toasts[q].action.call
        /\ LogPosition(toasts[p].action) > LogPosition(toasts[q].action)

=============================================================================
